---- MODULE Spec2Model ----
(***************************************************************************)
(* Model of the ProtoBuf wire decoder (ProtoBufDecoder.cpp) and of the     *)
(* message decode routine that drives it (Example.pb.cpp).                 *)
(*                                                                         *)
(* A pointer is modelled as its byte offset from the start of the decoder's *)
(* window (view.data()), so the window start is offset 0.  A uint64_t or    *)
(* int64_t is a vector of 64 bits, bit 0 the least significant one; an int  *)
(* is a TLA+ integer in -2^31 .. 2^31-1.                                    *)
(***************************************************************************)
EXTENDS Integers, Sequences, FiniteSets, TLC

\* the window's bytes, and the decoder pb over it: its cursor and its end
VARIABLES buf, ptr, buf_end
\* the decoder call that ended last: what was called, from where, and how it ended
VARIABLES last
\* Filter::ProtoBufDecode(pb): where it stands, its locals, the Filter it fills,
\* the sub-decoder made last and the exception that left the routine
VARIABLES pc, field_num, field_type, filter, sub_decoder, exc
\* main() of the generator: where it stands, its arguments and file, its streams and
\* its exit code
VARIABLES driver
\* the outcome of the decode that a caller ran before the one that is running
VARIABLES earlier

decoderVars == <<buf, ptr, buf_end>>

routineVars == <<pc, field_num, field_type, filter, sub_decoder, exc>>

callerVars == <<driver, earlier>>

vars == <<buf, ptr, buf_end, last, pc, field_num, field_type, filter, sub_decoder, exc, driver, earlier>>

(***************************************************************************)
(* Bounds of the model.                                                    *)
(***************************************************************************)
\* a window is the concatenation of at most MaxPieces pieces of Pieces
MaxPieces == 2
\* a message is the concatenation of at most MaxRecords records of FilterRecords
MaxRecords == 2
\* calls are explored while the cursor is at most MaxWild bytes before the window
MaxWild == 1

(***************************************************************************)
(* enum WireType                                                           *)
(***************************************************************************)
WIRETYPE_VARINT == 0
WIRETYPE_FIXED64 == 1
WIRETYPE_LENGTH_DELIMITED == 2
WIRETYPE_START_GROUP == 3
WIRETYPE_END_GROUP == 4
WIRETYPE_FIXED32 == 5

\* the values of (number & 7), the wire type codes a tag can carry
WireTypeCodes == 0..7

(***************************************************************************)
(* 64-bit words: uint64_t / int64_t arithmetic as the compiler does it.     *)
(* A word is <<l1, l2, l3, l4>>, four 16-bit limbs, l1 the least            *)
(* significant: its value is l1 + 2^16 l2 + 2^32 l3 + 2^48 l4.              *)
(***************************************************************************)
Limbs == 1..4

Zero64 == <<0, 0, 0, 0>>

Ones64 == <<65535, 65535, 65535, 65535>>

\* uint64_t(n) for an unsigned char or a non-negative int n
U64(n) == <<n % 65536, n \div 65536, 0, 0>>

Not64(a) == [k \in Limbs |-> 65535 - a[k]]

\* int64_t / ptrdiff_t (k) for an int k: sign extension
I64(k) == IF k >= 0 THEN U64(k) ELSE Not64(U64(-(k + 1)))

\* bit j (0..63) of a
Bit64(a, j) == (a[(j \div 16) + 1] \div (2^(j % 16))) % 2

\* limb k of a, 0 outside the word
Limb(a, k) == IF k >= 1 /\ k <= 4 THEN a[k] ELSE 0

\* a << s, 0 <= s
Shl64(a, s) ==
    LET q == s \div 16
        m == 2^(s % 16)
    IN  [k \in Limbs |-> ((Limb(a, k - q) * m) % 65536) + ((Limb(a, k - q - 1) * m) \div 65536)]

\* a >> s for an unsigned a, 0 <= s
Shr64(a, s) ==
    LET q == s \div 16
        m == 2^(s % 16)
        n == 2^(16 - (s % 16))
    IN  [k \in Limbs |-> (Limb(a, k + q) \div m) + ((Limb(a, k + q + 1) % m) * n)]

RECURSIVE Or16(_, _)
Or16(x, y) ==
    IF x = 0 THEN y ELSE IF y = 0 THEN x
    ELSE (IF x % 2 = 1 \/ y % 2 = 1 THEN 1 ELSE 0) + 2 * Or16(x \div 2, y \div 2)

RECURSIVE And16(_, _)
And16(x, y) ==
    IF x = 0 \/ y = 0 THEN 0
    ELSE ((x % 2) * (y % 2)) + 2 * And16(x \div 2, y \div 2)

RECURSIVE Xor16(_, _)
Xor16(x, y) ==
    IF x = 0 THEN y ELSE IF y = 0 THEN x
    ELSE ((x + y) % 2) + 2 * Xor16(x \div 2, y \div 2)

Or64(a, b) == [k \in Limbs |-> Or16(a[k], b[k])]

And64(a, b) == [k \in Limbs |-> And16(a[k], b[k])]

Xor64(a, b) == [k \in Limbs |-> Xor16(a[k], b[k])]

\* a + b + c modulo 2^64, c the carry in (0 or 1)
AddCarry64(a, b, c) ==
    LET s1 == a[1] + b[1] + c
        s2 == a[2] + b[2] + (s1 \div 65536)
        s3 == a[3] + b[3] + (s2 \div 65536)
        s4 == a[4] + b[4] + (s3 \div 65536)
    IN  <<s1 % 65536, s2 % 65536, s3 % 65536, s4 % 65536>>

\* a - b modulo 2^64
Sub64(a, b) == AddCarry64(a, Not64(b), 1)

\* 0 - a modulo 2^64
Neg64(a) == Sub64(Zero64, a)

\* int(a) for a uint64_t a: the low 32 bits, read as two's complement
ToInt32(a) ==
    IF a[2] >= 32768 THEN ((a[1] + 65536 * (a[2] - 32768)) - 2147483647) - 1
    ELSE a[1] + 65536 * a[2]

(***************************************************************************)
(* Memory.  buf holds the bytes of the window; offsets 0 .. Len(buf)-1 are  *)
(* the only bytes the program owns.  Reading any other offset is undefined  *)
(* behaviour: the read either faults or yields some byte (oob).             *)
(***************************************************************************)
FAULT == -1

\* what a read outside the window can give: a fault, or some byte
OobReads == {FAULT, 0, 255}

Mem(i, oob) == IF i >= 0 /\ i < Len(buf) THEN buf[i + 1] ELSE oob

(***************************************************************************)
(* How a call ends: it returns, throws std::runtime_error(what), or the     *)
(* process faults.  ptr is the cursor the call leaves behind.               *)
(***************************************************************************)
NoResult == [ptr |-> 0, how |-> "return", what |-> "", code |-> -1, type |-> "void", val |-> Zero64, view_start |-> Zero64, view_len |-> Zero64, field_num |-> 0, wire_type |-> 0]

\* the call returns v, a value of the C++ type named by type
Return(p, type, v) == [NoResult EXCEPT !.ptr = p, !.type = type, !.val = v]

\* throw std::runtime_error(msg), or msg + std::to_string(n) when n >= 0
Throw(p, msg, n) == [NoResult EXCEPT !.ptr = p, !.how = "throw", !.what = msg, !.code = n]

Fault(p) == [NoResult EXCEPT !.ptr = p, !.how = "fault"]

(***************************************************************************)
(* Level 1: advance_ptr, read_fixed_width, read_varint                      *)
(***************************************************************************)
\* void advance_ptr(int bytes): p the cursor, e buf_end
advance_ptr(p, e, bytes) ==
    IF e - p < bytes THEN Throw(p, "Unexpected end of buffer", -1)
    ELSE Return(p + bytes, "void", Zero64)

RECURSIVE LittleEndian(_, _, _)
\* memcpy(&value, old_ptr, size) on a little-endian cpu: byte k lands at bits 8k .. 8k+7
LittleEndian(old_ptr, size, oob) ==
    IF size = 0 THEN Zero64
    ELSE Or64(LittleEndian(old_ptr, size - 1, oob),
              Shl64(U64(Mem(old_ptr + size - 1, oob)), 8 * (size - 1)))

\* FixedType read_fixed_width<FixedType>(), size = sizeof(FixedType)
read_fixed_width(p, e, size, oob) ==
    LET old_ptr == p
        adv == advance_ptr(p, e, size)
    IN  IF adv.how # "return" THEN adv
        ELSE IF \E k \in 0..(size - 1) : Mem(old_ptr + k, oob) = FAULT THEN Fault(adv.ptr)
        ELSE Return(adv.ptr, "fixed", LittleEndian(old_ptr, size, oob))

RECURSIVE read_varint_loop_unmasked(_, _, _, _, _)
\* read_varint_loop with the "& 127" left out: value |= (byte << shift)
read_varint_loop_unmasked(p, e, value, shift, oob) ==
    IF p = e THEN Throw(p, "Unexpected end of buffer in varint", -1)
    ELSE IF shift >= 64 THEN Throw(p, "More than 10 bytes in varint", -1)
    ELSE LET byte == Mem(p, oob)
         IN  IF byte = FAULT THEN Fault(p)
             ELSE LET v == Or64(value, Shl64(U64(byte), shift))
                  IN  IF byte >= 128 THEN read_varint_loop_unmasked(p + 1, e, v, shift + 7, oob)
                      ELSE Return(p + 1, "uint64_t", v)

RECURSIVE read_varint_loop(_, _, _, _, _)
\* one pass of the do-while body of read_varint
read_varint_loop(p, e, value, shift, oob) ==
    IF p = e THEN Throw(p, "Unexpected end of buffer in varint", -1)
    ELSE IF shift >= 64 THEN Throw(p, "More than 10 bytes in varint", -1)
    ELSE LET byte == Mem(p, oob)
         IN  IF byte = FAULT THEN Fault(p)
             ELSE LET v == Or64(value, Shl64(U64(byte % 128), shift))
                  IN  IF byte >= 128 THEN read_varint_loop(p + 1, e, v, shift + 7, oob)
                      ELSE Return(p + 1, "uint64_t", v)

\* uint64_t read_varint()
read_varint(p, e, oob) == read_varint_loop(p, e, Zero64, 0, oob)

(***************************************************************************)
(* Level 2: parse_*_value, get_next_field, skip_field                       *)
(***************************************************************************)
\* int64_t(v) for an int32_t v held in bits 0..31: sign extension
SignExtend32(a) == IF a[2] >= 32768 THEN <<a[1], a[2], 65535, 65535>> ELSE <<a[1], a[2], 0, 0>>

\* FloatingPointType parse_fp_value<FloatingPointType>(int wire_type), T the name of
\* FloatingPointType; the value read is converted to T by the return statement
parse_fp_value(p, e, T, wire_type, oob) ==
    CASE wire_type = WIRETYPE_FIXED64 ->
            LET r == read_fixed_width(p, e, 8, oob)
            IN  IF r.how # "return" THEN r
                ELSE Return(r.ptr, IF T = "double" THEN "double" ELSE "float(double)", r.val)
      [] wire_type = WIRETYPE_FIXED32 ->
            LET r == read_fixed_width(p, e, 4, oob)
            IN  IF r.how # "return" THEN r
                ELSE Return(r.ptr, IF T = "float" THEN "float" ELSE "double(float)", r.val)
      [] OTHER -> Throw(p, "Can't parse floating-point value with field type ", wire_type)

\* uint64_t parse_integer_value(int wire_type)
parse_integer_value(p, e, wire_type, oob) ==
    CASE wire_type = WIRETYPE_VARINT -> read_varint(p, e, oob)
      [] wire_type = WIRETYPE_FIXED64 ->
            LET r == read_fixed_width(p, e, 8, oob)
            IN  IF r.how # "return" THEN r ELSE Return(r.ptr, "uint64_t", r.val)
      [] wire_type = WIRETYPE_FIXED32 ->
            LET r == read_fixed_width(p, e, 4, oob)
            IN  IF r.how # "return" THEN r ELSE Return(r.ptr, "uint64_t", r.val)
      [] OTHER -> Throw(p, "Can't parse integral value with field type ", wire_type)

\* ZigZag with the negation left out: (value >> 1) ^ (value & 1)
ZigZag_not_negated(value) == Xor64(Shr64(value, 1), And64(value, U64(1)))

\* (value >> 1) ^ (- int64_t(value & 1))
ZigZag(value) == Xor64(Shr64(value, 1), Neg64(And64(value, U64(1))))

\* int64_t parse_zigzag_value(int wire_type)
parse_zigzag_value(p, e, wire_type, oob) ==
    CASE wire_type = WIRETYPE_VARINT ->
            LET r == read_varint(p, e, oob)
            IN  IF r.how # "return" THEN r ELSE Return(r.ptr, "int64_t", ZigZag(r.val))
      [] wire_type = WIRETYPE_FIXED64 ->
            LET r == read_fixed_width(p, e, 8, oob)
            IN  IF r.how # "return" THEN r ELSE Return(r.ptr, "int64_t", r.val)
      [] wire_type = WIRETYPE_FIXED32 ->
            LET r == read_fixed_width(p, e, 4, oob)
            IN  IF r.how # "return" THEN r ELSE Return(r.ptr, "int64_t", SignExtend32(r.val))
      [] OTHER -> Throw(p, "Can't parse zigzag integral with field type ", wire_type)

\* parse_bytearray_value without the test of wire_type
parse_bytearray_value_unchecked(p, e, wire_type, oob) ==
    LET rd == read_varint(p, e, oob)
    IN  IF rd.how # "return" THEN rd
        ELSE LET len == rd.val
                 adv == advance_ptr(rd.ptr, e, ToInt32(len))
             IN  IF adv.how # "return" THEN adv
                 ELSE [Return(adv.ptr, "string_view", Zero64) EXCEPT
                         !.view_start = Sub64(I64(adv.ptr), len), !.view_len = len]

\* std::string_view parse_bytearray_value(int wire_type): the view returned is
\* {ptr-len, len}; view_start is its data() as a 64-bit offset from the window start
parse_bytearray_value(p, e, wire_type, oob) ==
    IF wire_type # WIRETYPE_LENGTH_DELIMITED
    THEN Throw(p, "Can't parse bytearray with field type ", wire_type)
    ELSE LET rd == read_varint(p, e, oob)
         IN  IF rd.how # "return" THEN rd
             ELSE LET len == rd.val
                      adv == advance_ptr(rd.ptr, e, ToInt32(len))
                  IN  IF adv.how # "return" THEN adv
                      ELSE [Return(adv.ptr, "string_view", Zero64) EXCEPT
                              !.view_start = Sub64(I64(adv.ptr), len), !.view_len = len]

\* get_next_field that takes a tag cut off by the end of the window for the end of
\* the stream
get_next_field_eos_on_cut_tag(p, e, oob) ==
    IF p = e THEN Return(p, "bool", Zero64)
    ELSE LET rd == read_varint(p, e, oob)
         IN  IF rd.how = "throw" /\ rd.what = "Unexpected end of buffer in varint"
             THEN Return(rd.ptr, "bool", Zero64)
             ELSE IF rd.how # "return" THEN rd
             ELSE LET number == rd.val
                  IN  [Return(rd.ptr, "bool", U64(1)) EXCEPT
                         !.field_num = ToInt32(Shr64(number, 3)),
                         !.wire_type = ToInt32(And64(number, U64(7)))]

\* bool get_next_field(int* field_num, int* wire_type): val is the bool returned
get_next_field(p, e, oob) ==
    IF p = e THEN Return(p, "bool", Zero64)
    ELSE LET rd == read_varint(p, e, oob)
         IN  IF rd.how # "return" THEN rd
             ELSE LET number == rd.val
                  IN  [Return(rd.ptr, "bool", U64(1)) EXCEPT
                         !.field_num = ToInt32(Shr64(number, 3)),
                         !.wire_type = ToInt32(And64(number, U64(7)))]

\* skip_field whose last branch skips nothing instead of throwing
skip_field_ignoring_unknown(p, e, wire_type, oob) ==
    IF wire_type = WIRETYPE_VARINT THEN
        LET r == read_varint(p, e, oob)
        IN  IF r.how # "return" THEN r ELSE Return(r.ptr, "void", Zero64)
    ELSE IF wire_type = WIRETYPE_FIXED32 THEN advance_ptr(p, e, 4)
    ELSE IF wire_type = WIRETYPE_FIXED64 THEN advance_ptr(p, e, 8)
    ELSE IF wire_type = WIRETYPE_LENGTH_DELIMITED THEN
        LET rd == read_varint(p, e, oob)
        IN  IF rd.how # "return" THEN rd
            ELSE LET len == rd.val IN advance_ptr(rd.ptr, e, ToInt32(len))
    ELSE Return(p, "void", Zero64)

\* void skip_field(int wire_type)
skip_field(p, e, wire_type, oob) ==
    IF wire_type = WIRETYPE_VARINT THEN
        LET r == read_varint(p, e, oob)
        IN  IF r.how # "return" THEN r ELSE Return(r.ptr, "void", Zero64)
    ELSE IF wire_type = WIRETYPE_FIXED32 THEN advance_ptr(p, e, 4)
    ELSE IF wire_type = WIRETYPE_FIXED64 THEN advance_ptr(p, e, 8)
    ELSE IF wire_type = WIRETYPE_LENGTH_DELIMITED THEN
        LET rd == read_varint(p, e, oob)
        IN  IF rd.how # "return" THEN rd
            ELSE LET len == rd.val IN advance_ptr(rd.ptr, e, ToInt32(len))
    ELSE Throw(p, "Unsupported field type ", wire_type)

(***************************************************************************)
(* struct SubMessage, struct Filter (Example.pb.cpp)                        *)
(***************************************************************************)
\* the value of a data member that has no initializer and was never assigned
Indeterminate == <<-1, -1, -1, -1>>

\* "DEFAULT NAME"
DefaultName == <<68, 69, 70, 65, 85, 76, 84, 32, 78, 65, 77, 69>>

\* a Filter as its constructor leaves it; msg and more_msgs hold SubMessages,
\* which have no members: msg is left out and more_msgs is their number
NewFilter == [size |-> Indeterminate, altitude |-> Indeterminate, weight |-> [type |-> "float", bits |-> Indeterminate], name |-> DefaultName, more_ints |-> << >>, more_sints |-> << >>, more_floats |-> << >>, more_strings |-> << >>, more_msgs |-> 0, has_size |-> FALSE, has_altitude |-> FALSE, has_weight |-> FALSE, has_name |-> FALSE, has_msg |-> FALSE]

NoSubDecoder == [made |-> FALSE, ptr |-> Zero64, buf_end |-> Zero64]

NoExc == [what |-> "", code |-> -1]

\* main() is not running
NoDriver == [pc |-> "none", argc |-> 0, readable |-> FALSE, content |-> << >>, str |-> << >>, proto |-> 0, out |-> << >>, err |-> << >>, status |-> -1]

\* no decode was run before this one
NoEarlier == [ran |-> FALSE, buf |-> << >>, pc |-> "", exc |-> NoExc, filter |-> << >>, next |-> << >>]

\* no decode routine is running: the caller uses the decoder directly
NoRoutine ==
    /\ pc = "caller"
    /\ field_num = 0
    /\ field_type = 0
    /\ filter = NewFilter
    /\ sub_decoder = NoSubDecoder
    /\ exc = NoExc
    /\ driver = NoDriver
    /\ earlier = NoEarlier

(***************************************************************************)
(* Input windows.  A window is a concatenation of pieces: single bytes and  *)
(* the varints that sit at the edges of the reader's range.                 *)
(***************************************************************************)
\* FF FF FF FF FF FF FF FF FF 01: the 10-byte varint 2^64-1
VarintMax64 == <<255, 255, 255, 255, 255, 255, 255, 255, 255, 1>>

\* ten continuation bytes: a varint that is still open after 10 bytes
VarintOpen10 == <<128, 128, 128, 128, 128, 128, 128, 128, 128, 128>>

\* FA FF FF FF 0F: the varint 2^32-6, whose low 32 bits read as an int are -6
VarintIntMinus6 == <<250, 255, 255, 255, 15>>

\* F9 FF FF FF 0F: the varint 2^32-7, whose low 32 bits read as an int are -7
VarintIntMinus7 == <<249, 255, 255, 255, 15>>

\* 80 80 80 80 10 and 81 80 80 80 10: the varints 2^32 and 2^32+1
Varint2Pow32 == <<128, 128, 128, 128, 16>>

Varint2Pow32Plus1 == <<129, 128, 128, 128, 16>>

\* 88 80 80 80 80 01: the tag 2^35 + 8, field number 2^32 + 1 with wire type VARINT
TagFieldNum2Pow32Plus1 == <<136, 128, 128, 128, 128, 1>>

Pieces == {<<0>>, <<1>>, <<128>>, VarintIntMinus6, Varint2Pow32}

RECURSIVE Concat(_, _)
\* the windows made of at most n pieces of the set ps
Concat(ps, n) == IF n = 0 THEN {<< >>} ELSE Concat(ps, n - 1) \cup {w \o x : w \in Concat(ps, n - 1), x \in ps}

Windows == Concat(Pieces, MaxPieces)

(***************************************************************************)
(* The decoder under a caller that may call any of its operations, in any   *)
(* order, and that catches what they throw.                                 *)
(***************************************************************************)
NoCall == [op |-> "", arg |-> 0, T |-> "", old_ptr |-> 0, res |-> NoResult]

\* explicit ProtoBufDecoder(const std::string_view& view), over the window w
Constructed(w) ==
    /\ buf = w
    /\ ptr = 0
    /\ buf_end = Len(w)
    /\ last = NoCall

Init ==
    /\ \E w \in Windows : Constructed(w)
    /\ NoRoutine

\* the process is alive and the cursor is within the explored range
CanCall == last.res.how # "fault" /\ ptr >= -MaxWild

\* the state after a call op(arg) on type T ended as r
Called(op, arg, T, r) ==
    /\ ptr' = r.ptr
    /\ last' = [op |-> op, arg |-> arg, T |-> T, old_ptr |-> ptr, res |-> r]
    /\ UNCHANGED <<buf, buf_end>>
    /\ UNCHANGED routineVars
    /\ UNCHANGED callerVars

\* the outcomes of the reads outside the window that a call from p can make
Oob(p) == IF p < 0 THEN OobReads ELSE {FAULT}

Call_read_varint ==
    /\ CanCall
    /\ \E oob \in Oob(ptr) : Called("read_varint", 0, "", read_varint(ptr, buf_end, oob))

Call_read_fixed_width ==
    /\ CanCall
    /\ \E size \in {4, 8}, oob \in Oob(ptr) :
          Called("read_fixed_width", size, "", read_fixed_width(ptr, buf_end, size, oob))

Call_parse_fp_value ==
    /\ CanCall
    /\ \E T \in {"float", "double"}, wt \in WireTypeCodes, oob \in Oob(ptr) :
          Called("parse_fp_value", wt, T, parse_fp_value(ptr, buf_end, T, wt, oob))

Call_parse_integer_value ==
    /\ CanCall
    /\ \E wt \in WireTypeCodes, oob \in Oob(ptr) :
          Called("parse_integer_value", wt, "", parse_integer_value(ptr, buf_end, wt, oob))

Call_parse_zigzag_value ==
    /\ CanCall
    /\ \E wt \in WireTypeCodes, oob \in Oob(ptr) :
          Called("parse_zigzag_value", wt, "", parse_zigzag_value(ptr, buf_end, wt, oob))

Call_parse_bytearray_value ==
    /\ CanCall
    /\ \E wt \in WireTypeCodes, oob \in Oob(ptr) :
          Called("parse_bytearray_value", wt, "", parse_bytearray_value(ptr, buf_end, wt, oob))

Call_get_next_field ==
    /\ CanCall
    /\ \E oob \in Oob(ptr) : Called("get_next_field", 0, "", get_next_field(ptr, buf_end, oob))

Call_skip_field ==
    /\ CanCall
    /\ \E wt \in WireTypeCodes, oob \in Oob(ptr) :
          Called("skip_field", wt, "", skip_field(ptr, buf_end, wt, oob))

Next ==
    \/ Call_read_varint
    \/ Call_read_fixed_width
    \/ Call_parse_fp_value
    \/ Call_parse_integer_value
    \/ Call_parse_zigzag_value
    \/ Call_parse_bytearray_value
    \/ Call_get_next_field
    \/ Call_skip_field

Spec == Init /\ [][Next]_vars

(***************************************************************************)
(* Level 3: parse_*_field and parse_repeated_*_field.  Each gives how the   *)
(* call ended (res) and what it left in *field and *has_field.              *)
(***************************************************************************)
\* IntegralType(value), a 64-bit value converted to the type named IntegralType: the
\* low bits are kept; the result is held as the 64-bit word of the same value
Cast(IntegralType, value) ==
    CASE IntegralType = "int32_t" -> SignExtend32(value)
      [] IntegralType = "uint32_t" -> <<value[1], value[2], 0, 0>>
      [] OTHER -> value

parse_integral_field(p, e, wire_type, field, has_field, IntegralType, oob) ==
    LET r == parse_integer_value(p, e, wire_type, oob)
    IN  IF r.how # "return" THEN [res |-> r, field |-> field, has_field |-> has_field]
        ELSE [res |-> Return(r.ptr, "void", Zero64), field |-> Cast(IntegralType, r.val), has_field |-> TRUE]

parse_repeated_integral_field(p, e, wire_type, field, IntegralType, oob) ==
    LET r == parse_integer_value(p, e, wire_type, oob)
    IN  IF r.how # "return" THEN [res |-> r, field |-> field]
        ELSE [res |-> Return(r.ptr, "void", Zero64), field |-> Append(field, Cast(IntegralType, r.val))]

parse_zigzag_field(p, e, wire_type, field, has_field, IntegralType, oob) ==
    LET r == parse_zigzag_value(p, e, wire_type, oob)
    IN  IF r.how # "return" THEN [res |-> r, field |-> field, has_field |-> has_field]
        ELSE [res |-> Return(r.ptr, "void", Zero64), field |-> Cast(IntegralType, r.val), has_field |-> TRUE]

parse_repeated_zigzag_field(p, e, wire_type, field, IntegralType, oob) ==
    LET r == parse_zigzag_value(p, e, wire_type, oob)
    IN  IF r.how # "return" THEN [res |-> r, field |-> field]
        ELSE [res |-> Return(r.ptr, "void", Zero64), field |-> Append(field, Cast(IntegralType, r.val))]

parse_fp_field(p, e, T, wire_type, field, has_field, oob) ==
    LET r == parse_fp_value(p, e, T, wire_type, oob)
    IN  IF r.how # "return" THEN [res |-> r, field |-> field, has_field |-> has_field]
        ELSE [res |-> Return(r.ptr, "void", Zero64), field |-> [type |-> r.type, bits |-> r.val], has_field |-> TRUE]

parse_repeated_fp_field(p, e, T, wire_type, field, oob) ==
    LET r == parse_fp_value(p, e, T, wire_type, oob)
    IN  IF r.how # "return" THEN [res |-> r, field |-> field]
        ELSE [res |-> Return(r.ptr, "void", Zero64), field |-> Append(field, [type |-> r.type, bits |-> r.val])]

\* what copying a view that is not inside the window can do: fault, fail to
\* allocate, or fill the string with bytes that are not the window's
CopyOutcomes == {"fault", "std::bad_alloc", "garbage"}

Garbage == <<FAULT>>

\* the view {view_start, view_len} lies inside the window
ViewInWindow(view_start, view_len) ==
    \E s \in 0..Len(buf) : \E n \in 0..(Len(buf) - s) : view_start = I64(s) /\ view_len = U64(n)

\* the bytes of a view that lies inside the window
ViewBytes(view_start, view_len) == SubSeq(buf, ToInt32(view_start) + 1, ToInt32(view_start) + ToInt32(view_len))

\* std::string(view) / string = view: res is how the copy ended after the call r
\* that gave the view, str the string made
StringOfView(r, copy) ==
    IF ViewInWindow(r.view_start, r.view_len)
    THEN [res |-> Return(r.ptr, "void", Zero64), str |-> ViewBytes(r.view_start, r.view_len)]
    ELSE CASE copy = "fault" -> [res |-> Fault(r.ptr), str |-> Garbage]
           [] copy = "garbage" -> [res |-> Return(r.ptr, "void", Zero64), str |-> Garbage]
           [] OTHER -> [res |-> Throw(r.ptr, copy, -1), str |-> Garbage]

parse_bytearray_field(p, e, wire_type, field, has_field, oob, copy) ==
    LET r == parse_bytearray_value(p, e, wire_type, oob)
        c == StringOfView(r, copy)
    IN  IF r.how # "return" THEN [res |-> r, field |-> field, has_field |-> has_field]
        ELSE IF c.res.how # "return" THEN [res |-> c.res, field |-> field, has_field |-> has_field]
        ELSE [res |-> c.res, field |-> c.str, has_field |-> TRUE]

parse_repeated_bytearray_field(p, e, wire_type, field, oob, copy) ==
    LET r == parse_bytearray_value(p, e, wire_type, oob)
        c == StringOfView(r, copy)
    IN  IF r.how # "return" THEN [res |-> r, field |-> field]
        ELSE IF c.res.how # "return" THEN [res |-> c.res, field |-> field]
        ELSE [res |-> c.res, field |-> Append(field, c.str)]

\* ProtoBufDecoder sub_decoder{view}
SubDecoder(view_start, view_len) == [made |-> TRUE, ptr |-> view_start, buf_end |-> AddCarry64(view_start, view_len, 0)]

\* void SubMessage::ProtoBufDecode(ProtoBufDecoder &pb): the body is empty, so the
\* sub-decoder is left as it was made
SubMessage_ProtoBufDecode(sub) == sub

\* parse_message_field that sets *has_field before it parses, so also when it fails
parse_message_field_flag_first(p, e, wire_type, has_field, oob) ==
    LET r == parse_bytearray_value(p, e, wire_type, oob)
    IN  IF r.how # "return" THEN [res |-> r, sub |-> NoSubDecoder, has_field |-> TRUE]
        ELSE [res |-> Return(r.ptr, "void", Zero64),
              sub |-> SubMessage_ProtoBufDecode(SubDecoder(r.view_start, r.view_len)),
              has_field |-> TRUE]

\* field is a SubMessage, which has no members: only *has_field records the call
parse_message_field(p, e, wire_type, has_field, oob) ==
    LET r == parse_bytearray_value(p, e, wire_type, oob)
    IN  IF r.how # "return" THEN [res |-> r, sub |-> NoSubDecoder, has_field |-> has_field]
        ELSE [res |-> Return(r.ptr, "void", Zero64),
              sub |-> SubMessage_ProtoBufDecode(SubDecoder(r.view_start, r.view_len)),
              has_field |-> TRUE]

\* field is the number of SubMessages in the vector
parse_repeated_message_field(p, e, wire_type, field, oob) ==
    LET r == parse_bytearray_value(p, e, wire_type, oob)
    IN  IF r.how # "return" THEN [res |-> r, sub |-> NoSubDecoder, field |-> field]
        ELSE [res |-> Return(r.ptr, "void", Zero64),
              sub |-> SubMessage_ProtoBufDecode(SubDecoder(r.view_start, r.view_len)),
              field |-> field + 1]

(***************************************************************************)
(* void Filter::ProtoBufDecode(ProtoBufDecoder &pb), on a new Filter.       *)
(* pc: "loop" before the while condition, "switch" before the switch,       *)
(* "check" after the loop; "returned", "thrown" (exc left the routine) or   *)
(* "faulted" when it is over.                                               *)
(***************************************************************************)
\* the messages decoded: concatenations of these records
FilterRecords == {
    <<8, 42>>,                           \* 1: size, VARINT 42
    <<16, 3>>,                           \* 2: altitude, VARINT 3
    <<29, 0, 0, 128, 63>>,               \* 3: weight, FIXED32
    <<34, 1, 72>>,                       \* 4: name, LEN "H"
    <<42, 2, 8, 7>>,                     \* 5: msg, LEN 08 07
    <<88, 1>>,                           \* 11: more_ints, VARINT 1
    <<88, 2>>,                           \* 11: more_ints, VARINT 2
    <<96, 1>>,                           \* 12: more_sints, VARINT 1
    <<105, 0, 0, 0, 0, 0, 0, 240, 63>>,  \* 13: more_floats, FIXED64
    <<114, 1, 73>>,                      \* 14: more_strings, LEN "I"
    <<122, 0>>,                          \* 15: more_msgs, LEN empty
    <<200, 1, 3>>,                       \* 25 (not declared), VARINT 3
    <<50, 1, 0>>,                        \* 6 (not declared), LEN one byte
    <<50>> \o VarintIntMinus6,           \* 6 (not declared), LEN 2^32-6
    <<34>> \o Varint2Pow32,              \* 4: name, LEN 2^32
    <<122>> \o Varint2Pow32,             \* 15: more_msgs, LEN 2^32
    TagFieldNum2Pow32Plus1 \o <<42>>,    \* 2^32+1 (not declared), VARINT 42
    <<8, 88>>,                           \* 1: size, VARINT 88
    <<122>> \o VarintIntMinus7 \o <<0, 0, 0, 0, 0, 0, 0, 0>>,  \* 15: more_msgs, LEN 2^32-7, and 8 bytes
    <<51>>, <<52>>, <<54>>, <<55>>,      \* 6 (not declared), wire types 3, 4, 6, 7
    <<11>>, <<36>>, <<46>>, <<31>>,      \* 1, 4, 5, 3 (declared), wire types 3, 4, 6, 7
    <<128>>                              \* a tag cut off by the end of the window
    }

FilterWindows == Concat(FilterRecords, MaxRecords)

InitFilter ==
    /\ \E w \in FilterWindows : Constructed(w)
    /\ pc = "loop"
    /\ field_num = 0
    /\ field_type = 0
    /\ filter = NewFilter
    /\ sub_decoder = NoSubDecoder
    /\ exc = NoExc
    /\ driver = NoDriver
    /\ earlier = NoEarlier

\* a decoder call op(field_type) made by the routine ended as r, leaving the Filter
\* as f and the sub-decoder as sub; when it returned the routine goes on at next
Routine(op, r, f, sub, next) ==
    /\ ptr' = r.ptr
    /\ last' = [op |-> op, arg |-> field_type, T |-> "", old_ptr |-> ptr, res |-> r]
    /\ filter' = f
    /\ sub_decoder' = sub
    /\ pc' = CASE r.how = "return" -> next [] r.how = "throw" -> "thrown" [] OTHER -> "faulted"
    /\ exc' = IF r.how = "throw" THEN [what |-> r.what, code |-> r.code] ELSE exc
    /\ UNCHANGED <<buf, buf_end>>
    /\ UNCHANGED callerVars

\* while( pb.get_next_field( &field_num, &field_type))
Filter_get_next_field ==
    /\ pc = "loop"
    /\ \E oob \in Oob(ptr) :
          LET r == get_next_field(ptr, buf_end, oob)
              more == r.how = "return" /\ r.val = U64(1)
          IN  /\ Routine("get_next_field", r, filter, sub_decoder, IF more THEN "switch" ELSE "check")
              /\ field_num' = IF more THEN r.field_num ELSE field_num
              /\ field_type' = IF more THEN r.wire_type ELSE field_type

\* the switch, at the case for field number n
AtCase(n) == pc = "switch" /\ field_num = n

\* case 1: pb.parse_integral_field (field_type, &size, &has_size); break;
Filter_case_1 ==
    /\ AtCase(1)
    /\ \E oob \in Oob(ptr) :
          LET h == parse_integral_field(ptr, buf_end, field_type, filter.size, filter.has_size, "int64_t", oob)
          IN  Routine("parse_integral_field", h.res, [filter EXCEPT !.size = h.field, !.has_size = h.has_field], sub_decoder, "loop")
    /\ UNCHANGED <<field_num, field_type>>

\* case 2: pb.parse_zigzag_integral_field (field_type, &altitude, &has_altitude); break;
\* the decoder has no member of that name; the call is taken to reach its zigzag
\* helper, parse_zigzag_field
Filter_case_2 ==
    /\ AtCase(2)
    /\ \E oob \in Oob(ptr) :
          LET h == parse_zigzag_field(ptr, buf_end, field_type, filter.altitude, filter.has_altitude, "int32_t", oob)
          IN  Routine("parse_zigzag_integral_field", h.res, [filter EXCEPT !.altitude = h.field, !.has_altitude = h.has_field], sub_decoder, "loop")
    /\ UNCHANGED <<field_num, field_type>>

\* case 3: pb.parse_fp_field (field_type, &weight, &has_weight); break;
Filter_case_3 ==
    /\ AtCase(3)
    /\ \E oob \in Oob(ptr) :
          LET h == parse_fp_field(ptr, buf_end, "float", field_type, filter.weight, filter.has_weight, oob)
          IN  Routine("parse_fp_field", h.res, [filter EXCEPT !.weight = h.field, !.has_weight = h.has_field], sub_decoder, "loop")
    /\ UNCHANGED <<field_num, field_type>>

\* case 4: pb.parse_bytearray_field (field_type, &name, &has_name); break;
Filter_case_4 ==
    /\ AtCase(4)
    /\ \E oob \in Oob(ptr), copy \in CopyOutcomes :
          LET h == parse_bytearray_field(ptr, buf_end, field_type, filter.name, filter.has_name, oob, copy)
          IN  Routine("parse_bytearray_field", h.res, [filter EXCEPT !.name = h.field, !.has_name = h.has_field], sub_decoder, "loop")
    /\ UNCHANGED <<field_num, field_type>>

\* case 5: pb.parse_message_field (field_type, &msg, &has_msg); break;
Filter_case_5 ==
    /\ AtCase(5)
    /\ \E oob \in Oob(ptr) :
          LET h == parse_message_field(ptr, buf_end, field_type, filter.has_msg, oob)
          IN  Routine("parse_message_field", h.res, [filter EXCEPT !.has_msg = h.has_field],
                      IF h.res.how = "return" THEN h.sub ELSE sub_decoder, "loop")
    /\ UNCHANGED <<field_num, field_type>>

\* case 11: pb.parse_repeated_integral_field ( field_type, &more_ints); break;
Filter_case_11 ==
    /\ AtCase(11)
    /\ \E oob \in Oob(ptr) :
          LET h == parse_repeated_integral_field(ptr, buf_end, field_type, filter.more_ints, "uint32_t", oob)
          IN  Routine("parse_repeated_integral_field", h.res, [filter EXCEPT !.more_ints = h.field], sub_decoder, "loop")
    /\ UNCHANGED <<field_num, field_type>>

\* case 12: pb.parse_repeated_zigzag_integral_field( field_type, &more_sints); break;
\* the decoder has no member of that name; the call is taken to reach its repeated
\* zigzag helper, parse_repeated_zigzag_field
Filter_case_12 ==
    /\ AtCase(12)
    /\ \E oob \in Oob(ptr) :
          LET h == parse_repeated_zigzag_field(ptr, buf_end, field_type, filter.more_sints, "int64_t", oob)
          IN  Routine("parse_repeated_zigzag_integral_field", h.res, [filter EXCEPT !.more_sints = h.field], sub_decoder, "loop")
    /\ UNCHANGED <<field_num, field_type>>

\* case 13: pb.parse_repeated_fp_field ( field_type, &more_floats); break;
Filter_case_13 ==
    /\ AtCase(13)
    /\ \E oob \in Oob(ptr) :
          LET h == parse_repeated_fp_field(ptr, buf_end, "double", field_type, filter.more_floats, oob)
          IN  Routine("parse_repeated_fp_field", h.res, [filter EXCEPT !.more_floats = h.field], sub_decoder, "loop")
    /\ UNCHANGED <<field_num, field_type>>

\* case 14: pb.parse_repeated_bytearray_field ( field_type, &more_strings); break;
Filter_case_14 ==
    /\ AtCase(14)
    /\ \E oob \in Oob(ptr), copy \in CopyOutcomes :
          LET h == parse_repeated_bytearray_field(ptr, buf_end, field_type, filter.more_strings, oob, copy)
          IN  Routine("parse_repeated_bytearray_field", h.res, [filter EXCEPT !.more_strings = h.field], sub_decoder, "loop")
    /\ UNCHANGED <<field_num, field_type>>

\* case 15: pb.parse_repeated_message_field ( field_type, &more_msgs); break;
Filter_case_15 ==
    /\ AtCase(15)
    /\ \E oob \in Oob(ptr) :
          LET h == parse_repeated_message_field(ptr, buf_end, field_type, filter.more_msgs, oob)
          IN  Routine("parse_repeated_message_field", h.res, [filter EXCEPT !.more_msgs = h.field],
                      IF h.res.how = "return" THEN h.sub ELSE sub_decoder, "loop")
    /\ UNCHANGED <<field_num, field_type>>

\* the field numbers the switch has a case for
FilterCases == {1, 2, 3, 4, 5, 11, 12, 13, 14, 15}

\* default: pb.skip_field( field_type);
Filter_default ==
    /\ pc = "switch"
    /\ field_num \notin FilterCases
    /\ \E oob \in Oob(ptr) :
          Routine("skip_field", skip_field(ptr, buf_end, field_type, oob), filter, sub_decoder, "loop")
    /\ UNCHANGED <<field_num, field_type>>

\* the check after the loop, testing has_name where it should test has_size
Filter_check_wrong_flag ==
    /\ pc = "check"
    /\ IF ~filter.has_name
       THEN pc' = "thrown" /\ exc' = [what |-> "Decoded protobuf has no required field Filter.size", code |-> -1]
       ELSE pc' = "returned" /\ exc' = exc
    /\ UNCHANGED <<buf, ptr, buf_end, last, field_num, field_type, filter, sub_decoder>>
    /\ UNCHANGED callerVars

\* if(! has_size) throw std::runtime_error("Decoded protobuf has no required field Filter.size");
Filter_check_required ==
    /\ pc = "check"
    /\ IF ~filter.has_size
       THEN pc' = "thrown" /\ exc' = [what |-> "Decoded protobuf has no required field Filter.size", code |-> -1]
       ELSE pc' = "returned" /\ exc' = exc
    /\ UNCHANGED <<buf, ptr, buf_end, last, field_num, field_type, filter, sub_decoder>>
    /\ UNCHANGED callerVars

NextFilter ==
    \/ Filter_get_next_field
    \/ Filter_case_1
    \/ Filter_case_2
    \/ Filter_case_3
    \/ Filter_case_4
    \/ Filter_case_5
    \/ Filter_case_11
    \/ Filter_case_12
    \/ Filter_case_13
    \/ Filter_case_14
    \/ Filter_case_15
    \/ Filter_default
    \/ Filter_check_required

SpecFilter == InitFilter /\ [][NextFilter]_vars

(***************************************************************************)
(* The varint reader alone, on windows that hold runs of continuation       *)
(* bytes of every length up to MaxCont, closed or left open.                *)
(***************************************************************************)
\* the longest run of continuation bytes in a window of VarintWindows
MaxCont == 11

ContBytes == {128, 255}

Tails == {<< >>, <<0>>, <<1>>, <<127>>, <<1, 129, 0>>}

\* k continuation bytes, c1 and c2 in turn
ContRun(c1, c2, k) == [i \in 1..k |-> IF i % 2 = 1 THEN c1 ELSE c2]

VarintWindows == {ContRun(c1, c2, k) \o t : c1 \in ContBytes, c2 \in ContBytes, k \in 0..MaxCont, t \in Tails}

InitVarint ==
    /\ \E w \in VarintWindows : Constructed(w)
    /\ NoRoutine

NextVarint == Call_read_varint

SpecVarint == InitVarint /\ [][NextVarint]_vars

(***************************************************************************)
(* The zigzag parsers under a caller that owns a Filter and parses into its *)
(* sint32 field altitude and its repeated sint64 field more_sints.          *)
(***************************************************************************)
\* FE FF FF FF 0F and FF FF FF FF 0F: the varints 2^32-2 and 2^32-1
Varint2Pow32Minus2 == <<254, 255, 255, 255, 15>>

Varint2Pow32Minus1 == <<255, 255, 255, 255, 15>>

\* ---------------------------------------------------------------------------
\* The generator: the call it emits for a field, and the names the decoder defines

\* FieldDescriptorProto::TYPE_*, as named in base_type_string
FieldTypes ==
    {"TYPE_DOUBLE", "TYPE_FLOAT", "TYPE_INT64", "TYPE_UINT64", "TYPE_INT32",
     "TYPE_FIXED64", "TYPE_FIXED32", "TYPE_BOOL", "TYPE_STRING", "TYPE_GROUP",
     "TYPE_MESSAGE", "TYPE_BYTES", "TYPE_UINT32", "TYPE_ENUM", "TYPE_SFIXED32",
     "TYPE_SFIXED64", "TYPE_SINT32", "TYPE_SINT64"}

\* FieldDescriptorProto::LABEL_*
Labels == {"LABEL_OPTIONAL", "LABEL_REQUIRED", "LABEL_REPEATED"}

\* std::string_view domain_string(FieldDescriptorProto &field)
domain_string(type) ==
    CASE type \in {"TYPE_DOUBLE", "TYPE_FLOAT"}  -> "fp"
      [] type \in {"TYPE_SINT32", "TYPE_SINT64"} -> "zigzag"
      [] type \in {"TYPE_STRING", "TYPE_BYTES"}  -> "bytearray"
      [] type = "TYPE_MESSAGE"                   -> "message"
      [] type = "TYPE_GROUP"                     -> "?group"
      [] OTHER                                   -> "integral"

\* the call in the string decoder of generator(): the member called, and whether
\* &has_<name> is passed
decoder(type, label) ==
    LET domain == domain_string(type)
    IN  IF label = "LABEL_REPEATED"
        THEN [callee |-> "parse_repeated_" \o domain \o "_field", has |-> FALSE]
        ELSE [callee |-> "parse_" \o domain \o "_field", has |-> TRUE]

\* MESSAGE_TEMPLATE: default: pb.skip_field(wire_type);
TemplateDefault == "skip_field"

\* the members ProtoBufDecoder defines for a dispatch case to call
DecoderDefines ==
    {"skip_field",
     "parse_integral_field", "parse_repeated_integral_field",
     "parse_zigzag_field", "parse_repeated_zigzag_field",
     "parse_fp_field", "parse_repeated_fp_field",
     "parse_bytearray_field", "parse_repeated_bytearray_field",
     "parse_message_field", "parse_repeated_message_field"}

\* the schema type and label of the Filter field with number n, from the member it
\* is decoded into (sints for altitude and more_sints)
FilterFieldType ==
    [n \in FilterCases |->
        CASE n = 1  -> "TYPE_INT64"
          [] n = 2  -> "TYPE_SINT32"
          [] n = 3  -> "TYPE_FLOAT"
          [] n = 4  -> "TYPE_STRING"
          [] n = 5  -> "TYPE_MESSAGE"
          [] n = 11 -> "TYPE_UINT32"
          [] n = 12 -> "TYPE_SINT64"
          [] n = 13 -> "TYPE_DOUBLE"
          [] n = 14 -> "TYPE_STRING"
          [] n = 15 -> "TYPE_MESSAGE"]

FilterFieldLabel == [n \in FilterCases |-> IF n > 10 THEN "LABEL_REPEATED" ELSE "LABEL_OPTIONAL"]


\* FE FF FF FF FF FF FF FF FF 01: the varint 2^64-2
VarintMax64Minus1 == <<254, 255, 255, 255, 255, 255, 255, 255, 255, 1>>

ZigZagPieces == {<<0>>, <<1>>, <<2>>, <<3>>, Varint2Pow32Minus2, Varint2Pow32Minus1, VarintMax64, VarintMax64Minus1, <<255, 255, 255, 255>>, <<0, 0, 0, 128>>, <<254, 255, 255, 255, 255, 255, 255, 127>>}

\* what follows the first value in a window
ZigZagTails == {<< >>, <<3>>, Varint2Pow32Minus1}

ZigZagWindows == {a \o b : a \in ZigZagPieces, b \in ZigZagTails}

InitZigZag ==
    /\ \E w \in ZigZagWindows : Constructed(w)
    /\ NoRoutine

\* the state after a call op(arg) that ended as r and left the caller's Filter as f
CalledOn(op, arg, T, r, f) ==
    /\ ptr' = r.ptr
    /\ last' = [op |-> op, arg |-> arg, T |-> T, old_ptr |-> ptr, res |-> r]
    /\ filter' = f
    /\ UNCHANGED <<buf, buf_end, pc, field_num, field_type, sub_decoder, exc>>
    /\ UNCHANGED callerVars

\* pb.parse_zigzag_field(wt, &altitude, &has_altitude), altitude an int32_t
Call_parse_zigzag_field ==
    /\ CanCall
    /\ \E wt \in WireTypeCodes, oob \in Oob(ptr) :
          LET h == parse_zigzag_field(ptr, buf_end, wt, filter.altitude, filter.has_altitude, "int32_t", oob)
          IN  CalledOn("parse_zigzag_field", wt, "int32_t", h.res,
                       [filter EXCEPT !.altitude = h.field, !.has_altitude = h.has_field])

\* pb.parse_repeated_zigzag_field(wt, &more_sints), more_sints a vector of int64_t
Call_parse_repeated_zigzag_field ==
    /\ CanCall
    /\ \E wt \in WireTypeCodes, oob \in Oob(ptr) :
          LET h == parse_repeated_zigzag_field(ptr, buf_end, wt, filter.more_sints, "int64_t", oob)
          IN  CalledOn("parse_repeated_zigzag_field", wt, "int64_t", h.res,
                       [filter EXCEPT !.more_sints = h.field])

NextZigZag ==
    \/ Call_parse_zigzag_value
    \/ Call_parse_zigzag_field
    \/ Call_parse_repeated_zigzag_field

SpecZigZag == InitZigZag /\ [][NextZigZag]_vars

(***************************************************************************)
(* A caller that decodes two messages, each with a decoder and a Filter of  *)
(* its own: first a message M, then M with one more record, of a field      *)
(* number that Filter does not declare, put in at a record boundary.        *)
(***************************************************************************)
\* M begins with a record of the required field size
SizeRecords == {<<8, 42>>, <<8, 88>>}

\* the records that follow in M: one of each declared field, and a submessage whose
\* length is 2^32-7
SkipRecords == {
    <<8, 42>>, <<16, 3>>, <<29, 0, 0, 128, 63>>, <<34, 1, 72>>, <<42, 2, 8, 7>>,
    <<88, 1>>, <<96, 1>>, <<105, 0, 0, 0, 0, 0, 0, 240, 63>>, <<114, 1, 73>>, <<122, 0>>,
    <<122>> \o VarintIntMinus7 \o <<0, 0, 0, 0, 0, 0, 0, 0>>
    }

\* well-formed records of fields 25 and 6: VARINT 3, LEN of one byte, FIXED64, FIXED32
UnknownRecords == {<<200, 1, 3>>, <<50, 1, 0>>, <<49, 1, 2, 3, 4, 5, 6, 7, 8>>, <<53, 1, 2, 3, 4>>}

RECURSIVE RecordLists(_, _)
\* the sequences of at most n records of the set rs
RecordLists(rs, n) == IF n = 0 THEN {<< >>} ELSE RecordLists(rs, n - 1) \cup {Append(l, x) : l \in RecordLists(rs, n - 1), x \in rs}

RECURSIVE Flatten(_)
\* the bytes of a sequence of records
Flatten(l) == IF l = << >> THEN << >> ELSE Head(l) \o Flatten(Tail(l))

\* the records l with the record u put in after the first k of them
InsertAt(l, k, u) == SubSeq(l, 1, k) \o <<u>> \o SubSeq(l, k + 1, Len(l))

InitSkip ==
    /\ \E s \in SizeRecords : \E t \in RecordLists(SkipRecords, MaxRecords) :
          LET l == <<s>> \o t
          IN  \E k \in 0..Len(l) : \E u \in UnknownRecords :
                /\ Constructed(Flatten(l))
                /\ earlier = [NoEarlier EXCEPT !.next = Flatten(InsertAt(l, k, u))]
    /\ pc = "loop"
    /\ field_num = 0
    /\ field_type = 0
    /\ filter = NewFilter
    /\ sub_decoder = NoSubDecoder
    /\ exc = NoExc
    /\ driver = NoDriver

\* the routine is over: it returned, or an exception left it, or the process faulted
Ended == {"returned", "thrown", "faulted"}

\* the first decode is over: the caller keeps what it gave, makes a decoder over the
\* second message and a new Filter, and calls ProtoBufDecode on them
Decode_next ==
    /\ pc \in {"returned", "thrown"}
    /\ ~earlier.ran
    /\ earlier' = [ran |-> TRUE, buf |-> buf, pc |-> pc, exc |-> exc, filter |-> filter, next |-> << >>]
    /\ buf' = earlier.next
    /\ ptr' = 0
    /\ buf_end' = Len(earlier.next)
    /\ last' = NoCall
    /\ pc' = "loop"
    /\ field_num' = 0
    /\ field_type' = 0
    /\ filter' = NewFilter
    /\ sub_decoder' = NoSubDecoder
    /\ exc' = NoExc
    /\ UNCHANGED driver

NextSkip ==
    \/ NextFilter
    \/ Decode_next

SpecSkip == InitSkip /\ [][NextSkip]_vars

\* ---------------------------------------------------------------------------
\* main() of the generator: generator file.pbs

\* the bytes of the file named by argv[1], when it can be opened
DescriptorFiles ==
    {<< >>, <<10, 0>>, <<10, 0, 10, 0>>, <<16, 1>>, <<10, 0, 16, 1>>, <<10, 2, 8, 1>>,
     <<128>>, <<10, 5>>, <<11>>, <<10, 0, 24>>, <<10, 0, 12>>}

\* the number of arguments given, plus one
ArgCounts == {1, 2, 3}

InitMain ==
    /\ Constructed(<< >>)
    /\ last = NoCall
    /\ pc = "caller"
    /\ field_num = 0
    /\ field_type = 0
    /\ filter = NewFilter
    /\ sub_decoder = NoSubDecoder
    /\ exc = NoExc
    /\ earlier = NoEarlier
    /\ \E n \in ArgCounts, r \in BOOLEAN, c \in DescriptorFiles :
          driver = [NoDriver EXCEPT !.pc = "start", !.argc = n, !.readable = r, !.content = c]

\* a statement of main outside the decode
MainStep(d) ==
    /\ driver' = d
    /\ UNCHANGED <<buf, ptr, buf_end, last, pc, field_num, field_type, filter, sub_decoder, exc, earlier>>

\* if (argc != 2) { printf(USAGE); return 1; }
Main_check_args ==
    /\ driver.pc = "start"
    /\ IF driver.argc # 2
       THEN MainStep([driver EXCEPT !.out = Append(@, "USAGE"), !.status = 1, !.pc = "exited"])
       ELSE MainStep([driver EXCEPT !.pc = "read"])

\* std::ifstream ifs(filename, ...); std::string str(std::istreambuf_iterator<char>{ifs}, {});
\* a stream that failed to open gives no bytes, and its state is not looked at
Main_read_file ==
    /\ driver.pc = "read"
    /\ MainStep([driver EXCEPT !.str = IF driver.readable THEN driver.content ELSE << >>, !.pc = "try"])

\* try { ProtoBufDecoder pb(str); FileDescriptorSet proto; proto.ProtoBufDecode(pb): entered
Main_try ==
    /\ driver.pc = "try"
    /\ buf' = driver.str
    /\ ptr' = 0
    /\ buf_end' = Len(driver.str)
    /\ pc' = "loop"
    /\ driver' = [driver EXCEPT !.pc = "decode"]
    /\ UNCHANGED <<last, field_num, field_type, filter, sub_decoder, exc, earlier>>

\* a decoder call made by FileDescriptorSet::ProtoBufDecode, which leaves proto.file
\* with files elements
Decoding(op, r, sub, next, files) ==
    /\ ptr' = r.ptr
    /\ last' = [op |-> op, arg |-> field_type, T |-> "", old_ptr |-> ptr, res |-> r]
    /\ sub_decoder' = sub
    /\ pc' = CASE r.how = "return" -> next [] r.how = "throw" -> "thrown" [] OTHER -> "faulted"
    /\ exc' = IF r.how = "throw" THEN [what |-> r.what, code |-> r.code] ELSE exc
    /\ driver' = [driver EXCEPT !.proto = files]
    /\ UNCHANGED <<buf, buf_end, filter, earlier>>

\* while( pb.get_next_field( &field_num, &wire_type)), and the end of the routine
\* when it gives false: a FileDescriptorSet has no required field to check
FileDescriptorSet_get_next_field ==
    /\ driver.pc = "decode"
    /\ pc = "loop"
    /\ \E oob \in Oob(ptr) :
          LET r == get_next_field(ptr, buf_end, oob)
              more == r.how = "return" /\ r.val = U64(1)
          IN  /\ Decoding("get_next_field", r, sub_decoder, IF more THEN "switch" ELSE "returned", driver.proto)
              /\ field_num' = IF more THEN r.field_num ELSE field_num
              /\ field_type' = IF more THEN r.wire_type ELSE field_type

\* FileDescriptorProto::ProtoBufDecode(sub_decoder): over an empty window the loop
\* ends at once; over a window that holds records the cases of FileDescriptorProto
\* return or fail with an error of the decoder
FileDescriptorProto_ProtoBufDecode(sub, p) ==
    IF sub.ptr = sub.buf_end THEN {Return(p, "void", Zero64)}
    ELSE {Return(p, "void", Zero64),
          Throw(p, "Unexpected end of buffer", -1),
          Throw(p, "Can't parse bytearray with field type ", WIRETYPE_VARINT)}

\* case 1: pb.parse_repeated_message_field( wire_type, &file); break;
FileDescriptorSet_case_1 ==
    /\ driver.pc = "decode"
    /\ AtCase(1)
    /\ \E oob \in Oob(ptr) :
          LET r == parse_bytearray_value(ptr, buf_end, field_type, oob)
              sub == SubDecoder(r.view_start, r.view_len)
          IN  IF r.how # "return"
              THEN Decoding("parse_repeated_message_field", r, sub_decoder, "loop", driver.proto)
              ELSE \E v \in FileDescriptorProto_ProtoBufDecode(sub, r.ptr) :
                      Decoding("parse_repeated_message_field", v, sub, "loop",
                               IF v.how = "return" THEN driver.proto + 1 ELSE driver.proto)
    /\ UNCHANGED <<field_num, field_type>>

\* default: pb.skip_field(wire_type);
FileDescriptorSet_default ==
    /\ driver.pc = "decode"
    /\ pc = "switch"
    /\ field_num # 1
    /\ \E oob \in Oob(ptr) :
          Decoding("skip_field", skip_field(ptr, buf_end, field_type, oob), sub_decoder, "loop", driver.proto)
    /\ UNCHANGED <<field_num, field_type>>

\* std::cout << std::format(FILE_TEMPLATE, filename);
Main_print_header ==
    /\ driver.pc = "decode"
    /\ pc = "returned"
    /\ pc' = "caller"
    /\ driver' = [driver EXCEPT !.out = Append(@, "FILE_TEMPLATE"), !.pc = "generator"]
    /\ UNCHANGED <<buf, ptr, buf_end, last, field_num, field_type, filter, sub_decoder, exc, earlier>>

\* what auto file = proto.file[0] gives: the first file, or, on an empty vector,
\* a crash or whatever lies there
FirstFile(files) == IF files > 0 THEN {"MESSAGE_TEMPLATE"} ELSE {"fault", "garbage"}

\* generator(proto);
Main_generator ==
    /\ driver.pc = "generator"
    /\ \E file \in FirstFile(driver.proto) :
          IF file = "fault"
          THEN MainStep([driver EXCEPT !.pc = "faulted"])
          ELSE MainStep([driver EXCEPT !.out = Append(@, file), !.pc = "return"])

\* catch (const std::exception& e) { fprintf(stderr, "Internal error: %s\n", e.what()); }
Main_catch ==
    /\ driver.pc = "decode"
    /\ pc = "thrown"
    /\ pc' = "caller"
    /\ driver' = [driver EXCEPT !.err = Append(@, <<"Internal error: ", exc.what, exc.code>>), !.pc = "return"]
    /\ UNCHANGED <<buf, ptr, buf_end, last, field_num, field_type, filter, sub_decoder, exc, earlier>>

\* return 0;
Main_return ==
    /\ driver.pc = "return"
    /\ MainStep([driver EXCEPT !.status = 0, !.pc = "exited"])

NextMain ==
    \/ Main_check_args
    \/ Main_read_file
    \/ Main_try
    \/ FileDescriptorSet_get_next_field
    \/ FileDescriptorSet_case_1
    \/ FileDescriptorSet_default
    \/ Main_print_header
    \/ Main_generator
    \/ Main_catch
    \/ Main_return

SpecMain == InitMain /\ [][NextMain]_vars


(***************************************************************************)
(* The wire format, as the claims state it (not taken from the code).       *)
(***************************************************************************)
InWindow(p) == p >= 0 /\ p <= buf_end

\* the length of the varint that starts at offset p: the number of bytes up to and
\* including the first one with a clear high bit; 0 when the window ends before one
WfVarintLen(p) ==
    IF \E k \in 1..(buf_end - p) : buf[p + k] < 128
    THEN CHOOSE k \in 1..(buf_end - p) : buf[p + k] < 128 /\ \A i \in 1..(k - 1) : buf[p + i] >= 128
    ELSE 0

\* bit j of the value of the varint at p: bit (j mod 7) of its byte (j div 7)
WfVarintBit(p, j) ==
    IF (j \div 7) < WfVarintLen(p) THEN ((buf[p + (j \div 7) + 1] % 128) \div (2^(j % 7))) % 2 ELSE 0

\* the 64-bit word w is the value of the varint at p
IsVarintValue(p, w) == \A j \in 0..63 : Bit64(w, j) = WfVarintBit(p, j)

RECURSIVE WfVarintLow(_, _)
\* the value of bits 0 .. n-1 of the varint at p  (n <= 31)
WfVarintLow(p, n) == IF n = 0 THEN 0 ELSE WfVarintBit(p, n - 1) * (2^(n - 1)) + WfVarintLow(p, n - 1)

\* the value of the varint at p is 2^31 or more
WfVarintHigh(p) == \E j \in 31..63 : WfVarintBit(p, j) = 1

\* the value of the varint at p is greater than / equal to the small number r
WfVarintGreater(p, r) == WfVarintHigh(p) \/ WfVarintLow(p, 31) > r

WfVarintEquals(p, r) == ~WfVarintHigh(p) /\ WfVarintLow(p, 31) = r

UnexpectedEnd == {"Unexpected end of buffer", "Unexpected end of buffer in varint"}

VarintTooLong == {"More than 10 bytes in varint"}

TypeMismatch == {"Can't parse floating-point value with field type ", "Can't parse integral value with field type ", "Can't parse zigzag integral with field type ", "Can't parse bytearray with field type "}

UnsupportedWireType == {"Unsupported field type "}

Threw(r, kind) == r.how = "throw" /\ r.what \in kind

\* the call that ended last was a length-delimited read that began in the window
\* at a well-formed length prefix
LenCall ==
    /\ last.op \in {"parse_bytearray_value", "skip_field"}
    /\ last.arg = WIRETYPE_LENGTH_DELIMITED
    /\ InWindow(last.old_ptr)
    /\ WfVarintLen(last.old_ptr) \in 1..10

\* C1: in every reachable state the cursor lies between the window start and the
\* window end, and a length-delimited read whose length prefix exceeds the bytes
\* that remain fails instead of moving the cursor
C1_CursorInWindow ==
    /\ ptr >= 0 /\ ptr <= buf_end
    /\ LenCall /\ WfVarintGreater(last.old_ptr, buf_end - (last.old_ptr + WfVarintLen(last.old_ptr)))
          => last.res.how = "throw"

\* C2: no operation moves the cursor backwards: the cursor after a call is greater
\* than or equal to the cursor before it
C2_CursorOnlyAdvances == last.op # "" => ptr >= last.old_ptr

\* C3: a length-delimited read whose length prefix is greater than the bytes that
\* remain after the prefix fails with the unexpected-end error, for every length up
\* to 2^64-1; a length equal to the bytes that remain succeeds
C3_LengthBeyondEndFails ==
    LenCall =>
        LET remaining == buf_end - (last.old_ptr + WfVarintLen(last.old_ptr))
        IN  /\ WfVarintGreater(last.old_ptr, remaining) => Threw(last.res, UnexpectedEnd)
            /\ WfVarintEquals(last.old_ptr, remaining) => last.res.how = "return"

\* C4: when parse_bytearray_value returns, the view is the len bytes that follow
\* the length prefix and lies inside the window: it starts where the prefix ends,
\* at or after the window start, and it ends at the new cursor, at or before the
\* window end
C4_ViewInsideWindow ==
    last.op = "parse_bytearray_value" /\ last.res.how = "return" /\ InWindow(last.old_ptr) =>
        \E s \in 0..buf_end : \E n \in 0..(buf_end - s) :
            /\ last.res.view_start = I64(s)
            /\ last.res.view_len = U64(n)
            /\ s = last.old_ptr + WfVarintLen(last.old_ptr)
            /\ WfVarintEquals(last.old_ptr, n)
            /\ s + n = ptr

\* C5: get_next_field returns end-of-stream exactly when the cursor is at the
\* window end before the call, and then leaves the cursor where it was; before the
\* end it returns a tag or fails, and a tag cut off by the window end fails with the
\* unexpected-end error
C5_EndOfStreamIffAtEnd ==
    last.op = "get_next_field" =>
        LET eos == last.res.how = "return" /\ last.res.val = Zero64
            tag == last.res.how = "return" /\ last.res.val = U64(1)
        IN  /\ eos <=> last.old_ptr = buf_end
            /\ eos => ptr = last.old_ptr
            /\ last.old_ptr # buf_end => tag \/ last.res.how \in {"throw", "fault"}
            /\ (/\ InWindow(last.old_ptr)
                /\ last.old_ptr < buf_end
                /\ buf_end - last.old_ptr <= 10
                /\ WfVarintLen(last.old_ptr) = 0) => Threw(last.res, UnexpectedEnd)

\* get_next_field was called with the cursor before the end of a window whose last
\* bytes are an unfinished tag
C5_Witness ==
    /\ last.op = "get_next_field"
    /\ InWindow(last.old_ptr)
    /\ last.old_ptr < buf_end
    /\ WfVarintLen(last.old_ptr) = 0

\* C6: a well-formed varint of k <= 10 bytes is read in exactly k bytes and gives
\* the 64-bit value whose bits are the low 7 bits of byte i at shift 7i; ten
\* continuation bytes followed by another byte fail with the varint-too-long error;
\* a window that ends before a byte with a clear high bit (within 10 bytes) fails
\* with the unexpected-end error
C6_VarintRead ==
    last.op = "read_varint" =>
        LET p == last.old_ptr
            k == WfVarintLen(p)
        IN  /\ k \in 1..10 =>
                  /\ last.res.how = "return"
                  /\ ptr = p + k
                  /\ IsVarintValue(p, last.res.val)
            /\ (buf_end - p >= 11 /\ \A i \in 1..10 : buf[p + i] >= 128) =>
                  Threw(last.res, VarintTooLong)
            /\ (k = 0 /\ buf_end - p <= 10) => Threw(last.res, UnexpectedEnd)

\* a 10-byte varint whose last byte fills bit 63 has been read
C6_Witness ==
    /\ last.op = "read_varint"
    /\ WfVarintLen(last.old_ptr) = 10
    /\ last.res.how = "return"
    /\ Bit64(last.res.val, 63) = 1
    /\ Bit64(last.res.val, 7) = 0

ParseValueOps == {"parse_fp_value", "parse_integer_value", "parse_zigzag_value", "parse_bytearray_value"}

\* the wire types the claim gives each domain
ClaimedAccepted(op, T) ==
    CASE op = "parse_fp_value" -> IF T = "float" THEN {WIRETYPE_FIXED32} ELSE {WIRETYPE_FIXED64}
      [] op = "parse_bytearray_value" -> {WIRETYPE_LENGTH_DELIMITED}
      [] OTHER -> {WIRETYPE_VARINT, WIRETYPE_FIXED64, WIRETYPE_FIXED32}

\* the same, with both fixed widths accepted for either floating-point type
AmendedAccepted(op, T) ==
    CASE op = "parse_fp_value" -> {WIRETYPE_FIXED32, WIRETYPE_FIXED64}
      [] op = "parse_bytearray_value" -> {WIRETYPE_LENGTH_DELIMITED}
      [] OTHER -> {WIRETYPE_VARINT, WIRETYPE_FIXED64, WIRETYPE_FIXED32}

\* the call failed with the type-mismatch error for its wire type, and gave no value
MismatchOutcome ==
    /\ Threw(last.res, TypeMismatch)
    /\ last.res.code = last.arg
    /\ last.res.val = Zero64 /\ last.res.view_len = Zero64
    /\ ptr = last.old_ptr

\* C7 (as claimed): a parse operation given a wire type outside its domain's
\* accepted set (floating: FIXED32 for f32, FIXED64 for f64) fails with the
\* type-mismatch error and produces no value
C7_Original ==
    last.op \in ParseValueOps /\ last.arg \notin ClaimedAccepted(last.op, last.T) => MismatchOutcome

\* C7 (amended): the same, with floating accepting FIXED32 and FIXED64 for both f32
\* and f64
C7_TypeMismatch ==
    last.op \in ParseValueOps /\ last.arg \notin AmendedAccepted(last.op, last.T) => MismatchOutcome

\* parse_fp_value<float> was given wire type VARINT with bytes left in the window
C7_Witness ==
    /\ last.op = "parse_fp_value"
    /\ last.T = "float"
    /\ last.arg = WIRETYPE_VARINT
    /\ last.old_ptr < buf_end
    /\ last.res.how = "throw"

\* C8: a skip_field(wt) that succeeds advances the cursor by exactly the byte
\* length of one value of wire type wt - the varint's length, 4, 8, or the length
\* prefix's length plus the length value - and changes nothing else
C8_SkipAdvancesExactly ==
    last.op = "skip_field" /\ last.res.how = "return" /\ InWindow(last.old_ptr) =>
        LET p == last.old_ptr
            k == WfVarintLen(p)
        IN  /\ buf_end = Len(buf)
            /\ last.arg = WIRETYPE_VARINT => ptr - p = k
            /\ last.arg = WIRETYPE_FIXED32 => ptr - p = 4
            /\ last.arg = WIRETYPE_FIXED64 => ptr - p = 8
            /\ last.arg = WIRETYPE_LENGTH_DELIMITED =>
                  ~WfVarintHigh(p) /\ ptr - p = k + WfVarintLow(p, 31)

\* SGROUP, EGROUP and the codes no wire type has
GroupOrUnknownCodes == {WIRETYPE_START_GROUP, WIRETYPE_END_GROUP, 6, 7}

\* skip_field, given one of these codes, failed with the unsupported-wire-type
\* error and left the cursor where it was
SkipRefusesCode ==
    last.op = "skip_field" /\ last.arg \in GroupOrUnknownCodes =>
        /\ Threw(last.res, UnsupportedWireType)
        /\ last.res.code = last.arg
        /\ ptr = last.old_ptr

\* the switch has acted on a tag that carries one of these codes
DispatchedCode == last.op \notin {"", "get_next_field"} /\ last.arg \in GroupOrUnknownCodes

\* C9 (as claimed): skip_field fails with the unsupported-wire-type error for wire
\* types 3, 4, 6 and 7 without moving the cursor, and a message loop that meets a
\* tag with such a wire type, on a declared or an undeclared field number, ends in
\* that error
C9_Original ==
    /\ SkipRefusesCode
    /\ DispatchedCode => pc = "thrown" /\ exc.what \in UnsupportedWireType

\* C9 (amended): skip_field fails so for each of these codes; a message loop that
\* meets such a tag ends in the unsupported-wire-type error when the field number
\* is not declared, and in the type-mismatch error when it is declared
C9_GroupTagFails ==
    /\ SkipRefusesCode
    /\ DispatchedCode =>
          /\ pc = "thrown"
          /\ exc.code = last.arg
          /\ field_num \notin FilterCases => exc.what \in UnsupportedWireType
          /\ field_num \in FilterCases => exc.what \in TypeMismatch

\* after a record that set size, the loop met an SGROUP tag on a field number that
\* is not declared
C9_Witness ==
    /\ pc = "thrown"
    /\ last.op = "skip_field"
    /\ last.arg = WIRETYPE_START_GROUP
    /\ filter.has_size

MissingRequired == {"Decoded protobuf has no required field Filter.size"}

\* the loop has ended: get_next_field returned false with the cursor at the end
LoopReachedEnd ==
    /\ last.op = "get_next_field"
    /\ last.res.how = "return" /\ last.res.val = Zero64
    /\ ptr = buf_end

\* C10: when Filter::ProtoBufDecode returns normally the presence flag of the
\* REQUIRED field size is true; when the loop ends with the flag unset the routine
\* fails with the missing-required error naming Filter.size; the check runs only
\* after the field loop has reached end-of-stream
C10_RequiredChecked ==
    /\ pc = "returned" => filter.has_size
    /\ pc = "check" => LoopReachedEnd
    /\ pc \in {"returned", "thrown"} /\ LoopReachedEnd /\ ~filter.has_size =>
          pc = "thrown" /\ exc.what \in MissingRequired
    /\ pc = "thrown" /\ exc.what \in MissingRequired => LoopReachedEnd /\ ~filter.has_size

\* a message that holds altitude but not size was decoded to its end
C10_Witness ==
    /\ pc = "thrown"
    /\ exc.what \in MissingRequired
    /\ filter.has_altitude
    /\ ~filter.has_size

MessageFieldOps == {"parse_message_field", "parse_repeated_message_field"}

\* C11: when a submessage field has been parsed the parent's cursor stands past the
\* length prefix and all the submessage's bytes, and the sub-decoder's window is
\* exactly those bytes; the sub-decoder does not move the parent's cursor, so the
\* parent's next get_next_field starts at the sibling that follows the submessage
C11_ParentPastSubmessage ==
    last.op \in MessageFieldOps /\ last.res.how = "return" =>
        LET p == last.old_ptr
            k == WfVarintLen(p)
        IN  /\ ~WfVarintHigh(p)
            /\ ptr = p + k + WfVarintLow(p, 31)
            /\ ptr <= buf_end
            /\ sub_decoder = [made |-> TRUE, ptr |-> I64(p + k), buf_end |-> I64(ptr)]

\* C12: a decode that ends in an error leaves the target record as it was before
\* the decode - no field, sequence or presence flag updated - and the error that
\* reaches the caller is the one the failing decoder call raised
C12_FailsAtomically ==
    /\ pc = "thrown" => filter = NewFilter
    /\ pc = "thrown" /\ last.res.how = "throw" =>
          exc.what = last.res.what /\ exc.code = last.res.code

\* C14: every iteration of the message loop that does not fail leaves the cursor
\* strictly further than it was at the start of the iteration (so the loop ends
\* after at most as many iterations as the window has bytes): reading a tag moves
\* the cursor forward, and when the dispatched call returns the cursor is beyond the
\* offset where the iteration's get_next_field began
C14_IterationAdvances ==
    [][/\ (pc = "loop" /\ pc' = "switch") => ptr' > ptr
       /\ (pc = "switch" /\ pc' = "loop") => ptr' > last.old_ptr]_vars

\* C15: for the tag t read by get_next_field, the field number reported is t >> 3
\* exactly, a number in 0 .. 2^32-1, and the wire type reported is t & 7; so the
\* switch acts on a declared field's case only when t >> 3 is that field's number
C15_FieldNumberExact ==
    pc = "switch" /\ InWindow(last.old_ptr) =>
        /\ field_num >= 0
        /\ \A j \in 0..60 : Bit64(U64(field_num), j) = WfVarintBit(last.old_ptr, j + 3)
        /\ field_type = WfVarintLow(last.old_ptr, 3)

\* zz(v) = (v << 1) XOR (v >> 63) for the signed 64-bit v, the shift right arithmetic
ZZEncode(v) == Xor64(Shl64(v, 1), IF Bit64(v, 63) = 1 THEN Ones64 ELSE Zero64)

\* bit j of the little-endian fixed-width integer whose first byte is at offset p
WfFixedBit(p, j) == (buf[p + (j \div 8) + 1] \div (2^(j % 8))) % 2

ZigZagOps == {"parse_zigzag_value", "parse_zigzag_field", "parse_repeated_zigzag_field"}

\* the signed value the zigzag call that ended last has produced: what
\* parse_zigzag_value returned, or what the field helper stored
ZigZagProduced ==
    CASE last.op = "parse_zigzag_field" -> filter.altitude
      [] last.op = "parse_repeated_zigzag_field" -> filter.more_sints[Len(filter.more_sints)]
      [] OTHER -> last.res.val

\* C16: with wire type VARINT the zigzag parser gives, for the raw varint n, the
\* signed value v with zz(v) = n (0 -> 0, 1 -> -1, 2 -> 1, 3 -> -2), and a 32-bit
\* field takes 4294967294 to 2147483647 and 4294967295 to -2147483648; with wire
\* type FIXED32 or FIXED64 it gives the little-endian fixed integer read as a signed
\* value of that width, with no zigzag step
C16_ZigZagDecode ==
    last.op \in ZigZagOps /\ last.res.how = "return" /\ InWindow(last.old_ptr) =>
        LET p == last.old_ptr
            v == ZigZagProduced
        IN  /\ last.arg = WIRETYPE_VARINT /\ last.op # "parse_zigzag_field" =>
                  /\ IsVarintValue(p, ZZEncode(v))
                  /\ WfVarintEquals(p, 0) => v = I64(0)
                  /\ WfVarintEquals(p, 1) => v = I64(-1)
                  /\ WfVarintEquals(p, 2) => v = I64(1)
                  /\ WfVarintEquals(p, 3) => v = I64(-2)
            /\ last.arg = WIRETYPE_VARINT /\ last.op = "parse_zigzag_field" =>
                  /\ WfVarintEquals(p, 1) => v = I64(-1)
                  /\ WfVarintEquals(p, 2) => v = I64(1)
                  /\ IsVarintValue(p, <<65534, 65535, 0, 0>>) => v = I64(2147483647)
                  /\ IsVarintValue(p, <<65535, 65535, 0, 0>>) => v = I64((-2147483647) - 1)
            /\ last.arg = WIRETYPE_FIXED32 =>
                  /\ ptr = p + 4
                  /\ \A j \in 0..63 : Bit64(v, j) = WfFixedBit(p, IF j < 32 THEN j ELSE 31)
            /\ last.arg = WIRETYPE_FIXED64 /\ last.op # "parse_zigzag_field" =>
                  /\ ptr = p + 8
                  /\ \A j \in 0..63 : Bit64(v, j) = WfFixedBit(p, j)

\* the varint 4294967295 has been parsed into the 32-bit field altitude, after a
\* fixed-width value was parsed into more_sints
C16_Witness ==
    /\ last.op = "parse_zigzag_field"
    /\ last.arg = WIRETYPE_VARINT
    /\ last.res.how = "return"
    /\ IsVarintValue(last.old_ptr, <<65535, 65535, 0, 0>>)
    /\ filter.altitude = <<0, 32768, 65535, 65535>>
    /\ Len(filter.more_sints) = 1

RECURSIVE WfVarintBits(_, _, _)
\* the value of bits from .. from+n-1 of the varint at p  (n <= 16)
WfVarintBits(p, from, n) ==
    IF n = 0 THEN 0 ELSE WfVarintBit(p, from + n - 1) * (2^(n - 1)) + WfVarintBits(p, from, n - 1)

\* the value of the varint at p as a 64-bit word
WfVarintWord(p) == <<WfVarintBits(p, 0, 16), WfVarintBits(p, 16, 16), WfVarintBits(p, 32, 16), WfVarintBits(p, 48, 16)>>

RECURSIVE WfFixedBits(_, _, _)
\* the value of bits from .. from+n-1 of the little-endian fixed integer at p
WfFixedBits(p, from, n) ==
    IF n = 0 THEN 0 ELSE WfFixedBit(p, from + n - 1) * (2^(n - 1)) + WfFixedBits(p, from, n - 1)

\* the 8-byte little-endian integer at p as a 64-bit word
WfFixed64Word(p) == <<WfFixedBits(p, 0, 16), WfFixedBits(p, 16, 16), WfFixedBits(p, 32, 16), WfFixedBits(p, 48, 16)>>

\* the number of bytes of the value of wire type wt that starts at offset q and lies
\* wholly inside the window; -1 when there is no such value
WfValueLen(q, wt) ==
    CASE wt = WIRETYPE_VARINT -> IF WfVarintLen(q) \in 1..10 THEN WfVarintLen(q) ELSE -1
      [] wt = WIRETYPE_FIXED64 -> IF buf_end - q >= 8 THEN 8 ELSE -1
      [] wt = WIRETYPE_FIXED32 -> IF buf_end - q >= 4 THEN 4 ELSE -1
      [] wt = WIRETYPE_LENGTH_DELIMITED ->
            IF WfVarintLen(q) \in 1..10 /\ ~WfVarintGreater(q, buf_end - (q + WfVarintLen(q)))
            THEN WfVarintLen(q) + WfVarintLow(q, 31) ELSE -1
      [] OTHER -> -1

RECURSIVE WfOccurrences(_, _)
\* the occurrences of field number n among the records that the window holds from
\* offset p on, in wire order: for each the offset of its value and its wire type.
\* The records end at the first tag that is cut off or whose value does not lie
\* inside the window; that tag still counts as an occurrence of its field
WfOccurrences(p, n) ==
    IF p >= buf_end \/ WfVarintLen(p) \notin 1..10 THEN << >>
    ELSE LET q == p + WfVarintLen(p)
             wt == buf[p + 1] % 8
             len == WfValueLen(q, wt)
             here == IF ~WfVarintHigh(p) /\ WfVarintLow(p, 31) \div 8 = n THEN <<[at |-> q, wt |-> wt]>> ELSE << >>
         IN  IF len < 0 THEN here ELSE here \o WfOccurrences(q + len, n)

\* the bytes of the length-delimited value whose prefix is at q
WfLenBytes(q) == SubSeq(buf, q + WfVarintLen(q) + 1, q + WfVarintLen(q) + WfVarintLow(q, 31))

\* the values the occurrences of fields 11, 13 and 14 stand for, as the elements hold them
IntsElem(o) == IF o.wt = WIRETYPE_VARINT THEN <<WfVarintWord(o.at)[1], WfVarintWord(o.at)[2], 0, 0>> ELSE <<WfFixedBits(o.at, 0, 16), WfFixedBits(o.at, 16, 16), 0, 0>>

FloatsElem(o) == IF o.wt = WIRETYPE_FIXED64 THEN [type |-> "double", bits |-> WfFixed64Word(o.at)] ELSE [type |-> "double(float)", bits |-> <<WfFixedBits(o.at, 0, 16), WfFixedBits(o.at, 16, 16), 0, 0>>]

StringsElem(o) == WfLenBytes(o.at)

ElemOf(n, o) == CASE n = 11 -> IntsElem(o) [] n = 13 -> FloatsElem(o) [] OTHER -> StringsElem(o)

\* the sequence seq has one element for each occurrence of field n, and element i
\* is the value occurrence i stands for
HoldsOccurrences(seq, n) ==
    LET occ == WfOccurrences(0, n)
    IN  /\ Len(seq) = Len(occ)
        /\ \A i \in 1..Len(occ) : i <= Len(seq) => seq[i] = ElemOf(n, occ[i])

\* C17: after a successful decode each repeated field's sequence holds exactly the
\* values of the occurrences of its field number in the input, in wire order, one
\* element per occurrence, narrowed to the element type; and the record has no
\* presence flag for a repeated field
C17_RepeatedHoldsOccurrences ==
    pc = "returned" =>
        /\ HoldsOccurrences(filter.more_ints, 11)
        /\ Len(filter.more_sints) = Len(WfOccurrences(0, 12))
        /\ \A i \in 1..Len(filter.more_sints) :
              i <= Len(WfOccurrences(0, 12)) /\ WfOccurrences(0, 12)[i].wt = WIRETYPE_VARINT =>
                  ZZEncode(filter.more_sints[i]) = WfVarintWord(WfOccurrences(0, 12)[i].at)
        /\ HoldsOccurrences(filter.more_floats, 13)
        /\ HoldsOccurrences(filter.more_strings, 14)
        /\ filter.more_msgs = Len(WfOccurrences(0, 15))
        /\ DOMAIN filter \cap {"has_more_ints", "has_more_sints", "has_more_floats", "has_more_strings", "has_more_msgs"} = {}

\* C18: when a message M decodes successfully, M with a well-formed record of an
\* undeclared field number (wire type VARINT, FIXED64, FIXED32 or LEN) put in at a
\* record boundary also decodes successfully, to the same field values, sequences
\* and presence flags
C18_UnknownSkipped ==
    earlier.ran /\ earlier.pc = "returned" /\ pc \in Ended =>
        /\ pc = "returned"
        /\ filter = earlier.filter

\* the presence flag of the non-repeated field with number n
FlagName == <<"has_size", "has_altitude", "has_weight", "has_name", "has_msg">>

\* C20: each presence flag is false when the decode begins, and a step of the decode
\* leaves it true exactly when it was true already or the step is the field's own
\* dispatch case returning normally (for msg, after the sub-decoder's routine
\* returned): so it is true iff an occurrence of the field has been parsed
\* completely and without error, and it is never reset
C20_PresenceFlags ==
    /\ \A n \in 1..5 : ~filter[FlagName[n]]
    /\ [][\A n \in 1..5 :
            filter'[FlagName[n]] <=>
                (filter[FlagName[n]] \/ (pc = "switch" /\ field_num = n /\ pc' = "loop"))]_vars

\* a decode has set has_msg and later met a record of field 5 that failed to parse
C20_Witness ==
    /\ filter.has_msg
    /\ ~filter.has_size
    /\ pc = "thrown"
    /\ last.op = "parse_message_field"

\* the domain token of a schema type
ClaimedDomain ==
    [t \in FieldTypes \ {"TYPE_GROUP"} |->
        CASE t \in {"TYPE_DOUBLE", "TYPE_FLOAT"}  -> "fp"
          [] t \in {"TYPE_SINT32", "TYPE_SINT64"} -> "zigzag"
          [] t \in {"TYPE_STRING", "TYPE_BYTES"}  -> "bytearray"
          [] t = "TYPE_MESSAGE"                   -> "message"
          [] OTHER                                -> "integral"]

\* the entry point for a domain and a label, and whether it takes the presence flag
ClaimedCall(domain, label) ==
    IF label = "LABEL_REPEATED"
    THEN [callee |-> "parse_repeated_" \o domain \o "_field", has |-> FALSE]
    ELSE [callee |-> "parse_" \o domain \o "_field", has |-> TRUE]

\* the last call was made by a dispatch case of the routine
Dispatched == last.op \notin {"", "get_next_field"}

\* C19: every dispatch case, emitted by the generator for a field of a non-GROUP
\* type and any label or written in Filter::ProtoBufDecode, calls a member that
\* the decoder defines and that is parse_repeated_<domain>_field for a REPEATED
\* field and parse_<domain>_field with the presence flag otherwise, for the domain
\* of the field's type; the default case calls skip_field
C19_DispatchCallsDefined ==
    /\ \A t \in FieldTypes \ {"TYPE_GROUP"} : \A l \in Labels :
          /\ decoder(t, l).callee \in DecoderDefines
          /\ decoder(t, l) = ClaimedCall(ClaimedDomain[t], l)
    /\ TemplateDefault = "skip_field"
    /\ Dispatched =>
          /\ last.op \in DecoderDefines
          /\ last.op = IF field_num \in FilterCases
                       THEN ClaimedCall(ClaimedDomain[FilterFieldType[field_num]], FilterFieldLabel[field_num]).callee
                       ELSE "skip_field"

\* main was started with one argument and has returned
Exited == driver.pc = "exited" /\ driver.argc = 2

\* the decode of the descriptor was left by an exception
DecodeFailed == exc # NoExc

\* C13: the driver exits with code 0 only when reading the descriptor file,
\* decoding it and emitting the output all succeeded; when the file cannot be read
\* or its decode fails with a decoder error, the driver has printed a diagnostic
\* to the error stream and exits with a non-zero code
C13_ExitCode ==
    Exited =>
        /\ driver.status = 0 =>
              /\ driver.readable
              /\ ~DecodeFailed
              /\ Len(driver.out) = 2
        /\ (~driver.readable \/ DecodeFailed) =>
              /\ Len(driver.err) = 1
              /\ driver.status # 0

====
